---- MODULE Spec2Model ----
(***************************************************************************)
(* gltf-import-export: GLB -> glTF (importProvider.ts) and glTF -> GLB     *)
(* (exportProvider.ts).                                                    *)
(*                                                                         *)
(* Representation.  A string that the code takes apart (a uri, a file     *)
(* name) is a sequence of string tokens: the uri                           *)
(* 'data:image/png;base64,QUJD' is <<"data:","image/png",";","base64",     *)
(* ",","QUJD">> and the file name 'out_img0.png' is                        *)
(* <<"out","_img","0",".png">>.  All files live in one directory, so       *)
(* path.dirname / Url.resolve / path.basename keep the name.  A Buffer is  *)
(* a sequence of bytes.  A JSON field that is absent is Undef (numbers),   *)
(* NoUri (uri) or NoMime (mimeType).                                       *)
(***************************************************************************)
EXTENDS Integers, Sequences, FiniteSets, TLC

\* ---------------------------------------------------------------- bounds
MaxViews == 2      \* bufferViews in an input document
MaxRefs  == 2      \* descriptors / reference sites in an input document

\* ------------------------------------------------------ program constants
Magic == 1179937895                 \* 0x46546C67
GLBVersion == 2
GL_VERTEX_SHADER_ARB == 35633       \* 0x8B31
GL_FRAGMENT_SHADER_ARB == 35632     \* 0x8B30
alignValue == 4
FileHeaderSize == 12
ChunkHeaderSize == 8

\* ------------------------------------------------------- absent JSON fields
Undef  == -1            \* an absent numeric field (undefined)
NaN    == -2            \* the result of number + undefined
NoUri  == <<>>          \* uri absent (undefined / null)
NoMime == "undefined"   \* mimeType absent

Min(a, b) == IF a < b THEN a ELSE b

\* ------------------------------------------------------------ Buffer helpers
\* Buffer.slice(start, end): clamped to the buffer.
Slice(buf, start, end) ==
    IF start >= Min(end, Len(buf)) THEN <<>>
    ELSE SubSeq(buf, start + 1, Min(end, Len(buf)))

\* Buffer.alloc(size, fill): the fill buffer repeated to size (zeros when empty).
BufferAlloc(size, fill) ==
    [i \in 1..size |-> IF Len(fill) = 0 THEN 0 ELSE fill[((i - 1) % Len(fill)) + 1]]

\* Buffer.alloc(size): zero filled.
ZeroBuffer(size) == [i \in 1..size |-> 0]

\* source.copy(target, targetStart): bytes past the end of target are dropped.
BufferCopy(target, source, targetStart) ==
    [i \in 1..Len(target) |->
        IF i > targetStart /\ i <= targetStart + Len(source)
        THEN source[i - targetStart] ELSE target[i]]

RECURSIVE BufferConcat(_)
BufferConcat(list) ==
    IF list = <<>> THEN <<>> ELSE Head(list) \o BufferConcat(Tail(list))

\* -------------------------------------------------------------- alignedLength
alignedLength_NoRound(value) == value

alignedLength(value) ==
    IF value = 0 THEN value
    ELSE LET multiple == value % alignValue IN
         IF multiple = 0 THEN value ELSE value + (alignValue - multiple)

\* ------------------------------------------------------------------ MIME table
gltfMimeTypes ==
    << [mimeType |-> "image/png",        ext |-> <<"png">>],
       [mimeType |-> "image/jpeg",       ext |-> <<"jpg", "jpeg">>],
       [mimeType |-> "image/vnd-ms.dds", ext |-> <<"dds">>],
       [mimeType |-> "text/plain",       ext |-> <<"glsl", "vert", "vs", "frag", "fs", "txt">>],
       [mimeType |-> "audio/wav",        ext |-> <<"wav">>] >>

\* '.' + extension, as a file-name token
DotExt ==
    [e \in {"png", "jpg", "jpeg", "dds", "glsl", "vert", "vs", "frag", "fs", "txt", "wav"} |->
        CASE e = "png" -> ".png" [] e = "jpg" -> ".jpg" [] e = "jpeg" -> ".jpeg"
          [] e = "dds" -> ".dds" [] e = "glsl" -> ".glsl" [] e = "vert" -> ".vert"
          [] e = "vs" -> ".vs" [] e = "frag" -> ".frag" [] e = "fs" -> ".fs"
          [] e = "txt" -> ".txt" [] e = "wav" -> ".wav"]

\* guessFileExtension returns a string: '.' + first extension, or '.bin'.
guessFileExtension(mimeType) ==
    IF \E k \in 1..Len(gltfMimeTypes) : gltfMimeTypes[k].mimeType = mimeType
    THEN LET k == CHOOSE k \in 1..Len(gltfMimeTypes) : gltfMimeTypes[k].mimeType = mimeType
         IN DotExt[gltfMimeTypes[k].ext[1]]
    ELSE ".bin"

\* guessMimeType: the first table entry one of whose extensions ends the name.
guessMimeType(filename) ==
    LET last == IF Len(filename) = 0 THEN "" ELSE filename[Len(filename)]
        hits == {k \in 1..Len(gltfMimeTypes) :
                    \E x \in 1..Len(gltfMimeTypes[k].ext) :
                        last = DotExt[gltfMimeTypes[k].ext[x]]}
    IN IF hits = {} THEN "application/octet-stream"
       ELSE gltfMimeTypes[CHOOSE k \in hits : \A j \in hits : k <= j].mimeType

\* ------------------------------------------------------------ resource loader
\* Base64 payload tokens and the bytes Buffer.from(token, 'base64') decodes them to.
Base64Table ==
    [t \in {"QkJCQg==", "SUlJ", "U1M="} |->
        CASE t = "QkJCQg==" -> <<21, 22, 23, 24, 25, 26, 27, 28>>
          [] t = "SUlJ"     -> <<41, 42, 43>>
          [] t = "U1M="     -> <<61, 62>>]

Base64Decode(token) ==
    IF token \in DOMAIN Base64Table THEN Base64Table[token] ELSE <<>>

IndexOf(seq, x) ==      \* 1-based position of the first x, 0 when there is none
    IF \E i \in 1..Len(seq) : seq[i] = x
    THEN CHOOSE i \in 1..Len(seq) : seq[i] = x /\ \A j \in 1..(i - 1) : seq[j] # x
    ELSE 0

isBase64(uri) == IF Len(uri) < 1 THEN FALSE ELSE uri[1] = "data:"

\* uri.split(',')[1]: the tokens between the first and the second ','.
SplitComma1(uri) ==
    LET c1 == IndexOf(uri, ",")
        rest == SubSeq(uri, c1 + 1, Len(uri))
        c2 == IndexOf(rest, ",")
    IN IF c2 = 0 THEN rest ELSE SubSeq(rest, 1, c2 - 1)

RECURSIVE DecodeTokens(_)
DecodeTokens(tokens) ==
    IF tokens = <<>> THEN <<>>
    ELSE Base64Decode(Head(tokens)) \o DecodeTokens(Tail(tokens))

\* decodeBase64: Buffer.from(undefined, 'base64') raises when there is no ','.
decodeBase64(uri) ==
    IF IndexOf(uri, ",") = 0 THEN [kind |-> "throw", buffer |-> <<>>]
    ELSE [kind |-> "data", buffer |-> DecodeTokens(SplitComma1(uri))]

NullData == [kind |-> "null", mimeType |-> NoMime, buffer |-> <<>>]
ThrowData == [kind |-> "throw", mimeType |-> NoMime, buffer |-> <<>>]

\* the data-uri branch of dataFromUri, lines 61-67
DataUriResult(uri, mimeTypePos, dec) ==
    IF mimeTypePos > 0 THEN
        IF dec.kind = "throw" THEN ThrowData
        ELSE [kind |-> "data", mimeType |-> IF mimeTypePos = 3 THEN uri[2] ELSE "",
              buffer |-> dec.buffer]
    ELSE NullData

\* dataFromUri(buffer, basePath): "null", "data" (mimeType, buffer) or "throw".
\* isDefined is FALSE for an index outside the array (reading .uri of undefined).
dataFromUri(isDefined, uri, files) ==
    IF ~isDefined THEN ThrowData
    ELSE IF uri = NoUri THEN NullData
    ELSE IF isBase64(uri) THEN DataUriResult(uri, IndexOf(uri, ";"), decodeBase64(uri))
    ELSE
        \* fs.readFileSync(fullUri) raises when the file does not exist
        IF uri \in DOMAIN files
        THEN [kind |-> "data", mimeType |-> guessMimeType(uri), buffer |-> files[uri].data]
        ELSE ThrowData

BufferDefined(glTF, bufferIndex) == bufferIndex + 1 \in 1..Len(glTF.buffers)

BufferUri(glTF, bufferIndex) ==
    IF BufferDefined(glTF, bufferIndex) THEN glTF.buffers[bufferIndex + 1].uri ELSE NoUri

\* getBuffer(glTF, bufferIndex, basePath): the fourth argument the importer
\* passes (binBuffer) is not a parameter of the function and is ignored.
getBuffer(glTF, bufferIndex, files, binBuffer) ==
    dataFromUri(BufferDefined(glTF, bufferIndex), BufferUri(glTF, bufferIndex), files)

\* ------------------------------------------------------------------ importer
ExtTokens == {".gltf", ".glb", ".bin", ".png"}

\* doConversion, lines 65-70: strip one trailing extension from the target name.
targetBasename(targetFilename) ==
    IF Len(targetFilename) > 1 /\ targetFilename[Len(targetFilename)] \in ExtTokens
    THEN SubSeq(targetFilename, 1, Len(targetFilename) - 1)
    ELSE targetFilename

\* guess.extension and guess.found, read off the string guessFileExtension
\* returns: a string has neither property, so both read undefined.
GuessExtension(guess) == "undefined"
GuessFound(guess) == FALSE

\* fs.writeFileSync(filename, data)
WriteFile(st, filename, data) ==
    [st EXCEPT !.files = (filename :> [type |-> "bin", data |-> data]) @@ st.files,
               !.written = Append(st.written, filename)]

Fail(st, error) == [st EXCEPT !.error = error]

\* indices (1-based) of the entries of list whose bufferView is bufferViewIndex
Matching(list, bufferViewIndex) ==
    {k \in 1..Len(list) : list[k].bufferView = bufferViewIndex}

SetMin(S) == CHOOSE x \in S : \A y \in S : x <= y

findImagesForBufferView(gltf, bufferViewIndex) == Matching(gltf.images, bufferViewIndex)
findShadersForBufferView(gltf, bufferViewIndex) == Matching(gltf.shaders, bufferViewIndex)
findExtensionBuffers(gltf, bufferViewIndex) == Matching(gltf.extBuffers, bufferViewIndex)

ViewOffset(view) == IF view.byteOffset = Undef THEN 0 ELSE view.byteOffset

\* buf.slice(offset, offset + length) for a bufferView
ViewBytes(buf, view) == Slice(buf, ViewOffset(view), ViewOffset(view) + view.byteLength)

\* the error a failed getBuffer leads to: the explicit throw for null, the
\* exception dataFromUri raised otherwise
BufferError(buf) == IF buf.kind = "null" THEN "ContentNotFound" ELSE "ReadError"

\* the throw of lines 98-100 or the fs.writeFileSync of line 101 (and its
\* twins in writeShaderBuf and writeExtensionBuffer)
WriteSidecar(st, filename, view, buf) ==
    IF buf.kind # "data" THEN Fail(st, BufferError(buf))
    ELSE WriteFile(st, filename, ViewBytes(buf.buffer, view))

ImageFilename(gltf, first, base) ==
    base \o <<"_img", ToString(first - 1),
              GuessExtension(guessFileExtension(gltf.images[first].mimeType))>>

\* lines 103-109
RedirectImages(w, images, filename, guess) ==
    IF w.error # "" THEN w
    ELSE [w EXCEPT !.gltf.images =
            [k \in 1..Len(w.gltf.images) |->
                IF k \in images
                THEN [w.gltf.images[k] EXCEPT
                        !.bufferView = Undef,
                        !.mimeType = IF GuessFound(guess) THEN NoMime ELSE @,
                        !.uri = filename]
                ELSE w.gltf.images[k]]]

writeImageBuf(st, images, bufferViewIndex, binBuffer, base) ==
    RedirectImages(
        WriteSidecar(st, ImageFilename(st.gltf, SetMin(images), base),
                     st.gltf.bufferViews[bufferViewIndex + 1],
                     getBuffer(st.gltf, st.gltf.bufferViews[bufferViewIndex + 1].buffer,
                               st.files, binBuffer)),
        images, ImageFilename(st.gltf, SetMin(images), base),
        guessFileExtension(st.gltf.images[SetMin(images)].mimeType))

ShaderExtension(type) ==
    IF type = GL_VERTEX_SHADER_ARB THEN ".vert"
    ELSE IF type = GL_FRAGMENT_SHADER_ARB THEN ".frag"
    ELSE ".glsl"

ShaderFilename(gltf, first, base) ==
    base \o <<"_shader", ToString(first - 1), ShaderExtension(gltf.shaders[first].type)>>

\* lines 144-148
RedirectShaders(w, shaders, filename) ==
    IF w.error # "" THEN w
    ELSE [w EXCEPT !.gltf.shaders =
            [k \in 1..Len(w.gltf.shaders) |->
                IF k \in shaders
                THEN [w.gltf.shaders[k] EXCEPT
                        !.bufferView = Undef, !.mimeType = NoMime, !.uri = filename]
                ELSE w.gltf.shaders[k]]]

writeShaderBuf(st, shaders, bufferViewIndex, binBuffer, base) ==
    RedirectShaders(
        WriteSidecar(st, ShaderFilename(st.gltf, SetMin(shaders), base),
                     st.gltf.bufferViews[bufferViewIndex + 1],
                     getBuffer(st.gltf, st.gltf.bufferViews[bufferViewIndex + 1].buffer,
                               st.files, binBuffer)),
        shaders, ShaderFilename(st.gltf, SetMin(shaders), base))

\* the one array-valued extension property of the model: extensions.EXT_bin.buffers
ExtBufferName == "EXT_bin_buffers"

ExtensionFilename(gltf, first, bufferViewIndex, base) ==
    base \o <<"_", ExtBufferName, "_", ToString(bufferViewIndex),
              GuessExtension(guessFileExtension(gltf.extBuffers[first].mimeType))>>

\* lines 166-172
RedirectExtensionBuffers(w, buffers, filename, guess) ==
    IF w.error # "" THEN w
    ELSE [w EXCEPT !.gltf.extBuffers =
            [k \in 1..Len(w.gltf.extBuffers) |->
                IF k \in buffers
                THEN [w.gltf.extBuffers[k] EXCEPT
                        !.bufferView = Undef,
                        !.mimeType = IF GuessFound(guess) THEN NoMime ELSE @,
                        !.uri = filename]
                ELSE w.gltf.extBuffers[k]]]

writeExtensionBuffer(st, buffers, bufferViewIndex, binBuffer, base) ==
    RedirectExtensionBuffers(
        WriteSidecar(st, ExtensionFilename(st.gltf, SetMin(buffers), bufferViewIndex, base),
                     st.gltf.bufferViews[bufferViewIndex + 1],
                     getBuffer(st.gltf, st.gltf.bufferViews[bufferViewIndex + 1].buffer,
                               st.files, binBuffer)),
        buffers, ExtensionFilename(st.gltf, SetMin(buffers), bufferViewIndex, base),
        guessFileExtension(st.gltf.extBuffers[SetMin(buffers)].mimeType))

\* the view's bytes without the padding to the aligned length
BufPart_NoPad(buf, view, length, aLength) == ViewBytes(buf, view)

\* lines 209-213: the bytes of a generic view, padded to the aligned length
BufPart(buf, view, length, aLength) ==
    IF length = aLength THEN ViewBytes(buf, view)
    ELSE BufferAlloc(aLength, ViewBytes(buf, view))

\* lines 206-216
PushGeneric(st, bufferViewIndex, view, buf) ==
    IF buf.kind # "data" THEN Fail(st, BufferError(buf))
    ELSE [st EXCEPT
            !.bufferViewList = Append(@, bufferViewIndex),
            !.bufferDataList =
                Append(@, BufPart(buf.buffer, view, view.byteLength,
                                  alignedLength(view.byteLength)))]

addToBinaryBuf(st, bufferViewIndex, binBuffer) ==
    PushGeneric(st, bufferViewIndex, st.gltf.bufferViews[bufferViewIndex + 1],
                getBuffer(st.gltf, st.gltf.bufferViews[bufferViewIndex + 1].buffer,
                          st.files, binBuffer))

\* lines 222-240: the body of the loop for one bufferView
BreakOutView(st, bufferViewIndex, binBuffer, base, images, shaders, buffers) ==
    IF images # {} THEN writeImageBuf(st, images, bufferViewIndex, binBuffer, base)
    ELSE IF shaders # {} THEN writeShaderBuf(st, shaders, bufferViewIndex, binBuffer, base)
    ELSE IF buffers # {} THEN writeExtensionBuffer(st, buffers, bufferViewIndex, binBuffer, base)
    ELSE addToBinaryBuf(st, bufferViewIndex, binBuffer)

\* lines 219-242: one iteration per bufferView, stopping at the first throw
RECURSIVE BreakOutViews(_, _, _, _)
BreakOutViews(st, bufferViewIndex, binBuffer, base) ==
    IF st.error # "" \/ ~st.gltf.hasBufferViews
       \/ bufferViewIndex >= Len(st.gltf.bufferViews) THEN st
    ELSE BreakOutViews(
            BreakOutView(st, bufferViewIndex, binBuffer, base,
                         findImagesForBufferView(st.gltf, bufferViewIndex),
                         findShadersForBufferView(st.gltf, bufferViewIndex),
                         findExtensionBuffers(st.gltf, bufferViewIndex)),
            bufferViewIndex + 1, binBuffer, base)

\* lines 244-256: the generic views, renumbered and laid out one after another
RECURSIVE NewBufferViews(_, _, _, _, _)
NewBufferViews(gltf, bufferViewList, bufferDataList, i, currentOffset) ==
    IF i > Len(bufferViewList) THEN <<>>
    ELSE <<[gltf.bufferViews[bufferViewList[i] + 1] EXCEPT
                !.buffer = 0, !.byteOffset = currentOffset,
                !.byteLength = Len(bufferDataList[i])]>>
         \o NewBufferViews(gltf, bufferViewList, bufferDataList, i + 1,
                           currentOffset + Len(bufferDataList[i]))

\* line 256: gltf.bufferViews = newBufferView
ReplaceBufferViews(st) ==
    [st EXCEPT !.gltf.bufferViews =
                    NewBufferViews(st.gltf, st.bufferViewList, st.bufferDataList, 1, 0),
               !.gltf.hasBufferViews = TRUE]

\* bufferViewList.indexOf(oldIndex), 0-based, -1 when absent
ListIndexOf(bufferViewList, oldIndex) == IndexOf(bufferViewList, oldIndex) - 1

\* getNewBufferViewIndex throws when the old index is not a generic view
MappingFails(bufferViewList, oldIndex) == ListIndexOf(bufferViewList, oldIndex) < 0

getNewBufferViewIndex(bufferViewList, oldIndex) == ListIndexOf(bufferViewList, oldIndex)

\* lines 268-282: an accessor's three reference sites
RenumberAccessor(bufferViewList, accessor) ==
    [bufferView    |-> IF accessor.bufferView # Undef
                       THEN getNewBufferViewIndex(bufferViewList, accessor.bufferView)
                       ELSE Undef,
     sparseIndices |-> IF accessor.sparseIndices # Undef
                       THEN getNewBufferViewIndex(bufferViewList, accessor.sparseIndices)
                       ELSE Undef,
     sparseValues  |-> IF accessor.sparseValues # Undef
                       THEN getNewBufferViewIndex(bufferViewList, accessor.sparseValues)
                       ELSE Undef]

AccessorThrows(bufferViewList, accessor) ==
    \/ accessor.bufferView # Undef /\ MappingFails(bufferViewList, accessor.bufferView)
    \/ accessor.sparseIndices # Undef /\ MappingFails(bufferViewList, accessor.sparseIndices)
    \/ accessor.sparseValues # Undef /\ MappingFails(bufferViewList, accessor.sparseValues)

\* lines 284-292: primitives carrying KHR_draco_mesh_compression
RenumberPrimitive(bufferViewList, primitive) ==
    [draco |-> getNewBufferViewIndex(bufferViewList, primitive.draco)]

RenumberThrows(gltf, bufferViewList) ==
    \/ \E k \in 1..Len(gltf.accessors) : AccessorThrows(bufferViewList, gltf.accessors[k])
    \/ \E k \in 1..Len(gltf.prims) : MappingFails(bufferViewList, gltf.prims[k].draco)

\* lines 266-292: renumber every reference site, or throw
RenumberReferences(st) ==
    IF RenumberThrows(st.gltf, st.bufferViewList) THEN Fail(st, "IndexMapping")
    ELSE [st EXCEPT
            !.gltf.accessors = [k \in 1..Len(st.gltf.accessors) |->
                RenumberAccessor(st.bufferViewList, st.gltf.accessors[k])],
            !.gltf.prims = [k \in 1..Len(st.gltf.prims) |->
                RenumberPrimitive(st.bufferViewList, st.gltf.prims[k])]]

\* JSON.stringify: a NaN number is written as null
JsonNull == -3
JsonNumber(n) == IF n = NaN THEN JsonNull ELSE n
JsonStringify(gltf) ==
    [gltf EXCEPT !.bufferViews =
        [k \in 1..Len(gltf.bufferViews) |->
            [gltf.bufferViews[k] EXCEPT !.byteOffset = JsonNumber(@)]]]
JsonParse(text) == text

DataBinName(base) == base \o <<"_data", ".bin">>

\* lines 294-300: the data file and the single buffers entry
WriteDataBin(st, binFilename, finalBuffer) ==
    [WriteFile(st, binFilename, finalBuffer) EXCEPT
        !.gltf.buffers = <<[uri |-> binFilename, byteLength |-> Len(finalBuffer)]>>]

\* lines 302-304: the .gltf
WriteGltf(st, targetFilename) ==
    [st EXCEPT
        !.files = (targetFilename :>
                      [type |-> "json", data |-> <<>>, json |-> JsonStringify(st.gltf)])
                  @@ st.files,
        !.written = Append(st.written, targetFilename)]

WriteOutputs(st, targetFilename, base) ==
    IF st.error # "" THEN st
    ELSE WriteGltf(WriteDataBin(st, DataBinName(base), BufferConcat(st.bufferDataList)),
                   targetFilename)

\* lines 244-304, after the loop over the bufferViews returned or threw
AfterBreakOut(st, targetFilename, base) ==
    IF st.error # "" THEN st
    ELSE WriteOutputs(RenumberReferences(ReplaceBufferViews(st)), targetFilename, base)

\* doConversion(sourceBuf, pathBase, targetFilename) on the files of the moment.
\* The result: error ("" when it returned), the files and the list of file
\* names written up to the return or the throw, and the document.
doConversion(sourceBuf, targetFilename, files0) ==
    AfterBreakOut(
        BreakOutViews([gltf |-> JsonParse(sourceBuf.json), files |-> files0,
                       written |-> <<>>, bufferViewList |-> <<>>,
                       bufferDataList |-> <<>>, error |-> ""],
                      0, sourceBuf.bin, targetBasename(targetFilename)),
        targetFilename, targetBasename(targetFilename))

\* Buffer.readUInt32LE(offset) on a file that is not a structured container
RECURSIVE UInt32LE(_, _, _)
UInt32LE(data, offset, n) ==
    IF n = 0 THEN 0 ELSE data[offset + 1] + 256 * UInt32LE(data, offset + 1, n - 1)

\* the magic and the version readSourceFile reads (lines 20 and 24)
ReadMagic(file) == IF file.type = "glb" THEN file.magic ELSE UInt32LE(file.data, 0, 4)

\* the header check without the version test
CheckHeader_NoVersion(file) ==
    IF file.type # "glb" /\ Len(file.data) < 4 THEN "ReadError"
    ELSE IF ReadMagic(file) # Magic THEN "NotGLB"
    ELSE IF file.type # "glb" THEN "ReadError"
    ELSE ""

\* lines 19-27, on the file read
CheckHeader(file) ==
    IF file.type # "glb" /\ Len(file.data) < 4 THEN "ReadError"
    ELSE IF ReadMagic(file) # Magic THEN "NotGLB"
    ELSE IF file.type # "glb" THEN "ReadError"
    ELSE IF file.version # GLBVersion THEN "UnsupportedVersion"
    ELSE ""

\* readSourceFile: the error it throws, "" when it returns the buffer
readSourceFile(sourceFilename, files) ==
    IF sourceFilename = NoUri THEN "InputUndefined"
    ELSE IF sourceFilename \notin DOMAIN files THEN "FileNotFound"
    ELSE CheckHeader(files[sourceFilename])

\* ------------------------------------------------------------------ exporter
\* bufferMap: a Map<number, number>, as a set of <<key, value>> pairs
MapHas(map, key) == \E e \in map : e[1] = key
MapGet(map, key) == (CHOOSE e \in map : e[1] = key)[2]
MapSet(map, key, value) == {e \in map : e[1] # key} \cup {<<key, value>>}

\* lines 145-153: one buffers entry
ResolveBuffer(st, bufferIndex, data) ==
    IF data.kind = "throw" THEN [st EXCEPT !.error = "ReadError"]
    ELSE IF data.kind = "null" THEN st
    ELSE [st EXCEPT
            !.outputBuffers = Append(@, data.buffer),
            !.gltf.buffers[bufferIndex + 1] = [uri |-> NoUri, byteLength |-> Len(data.buffer)],
            !.bufferMap = MapSet(@, bufferIndex, st.bufferOffset),
            !.placed = Append(@, [offset |-> st.bufferOffset, length |-> Len(data.buffer)]),
            !.bufferOffset = @ + alignedLength(Len(data.buffer))]

\* lines 143-154: the buffers loop
RECURSIVE ResolveBuffers(_, _, _)
ResolveBuffers(st, bufferIndex, files) ==
    IF st.error # "" THEN st
    ELSE IF bufferIndex >= Len(st.gltf.buffers) THEN [st EXCEPT !.bufferIndex = bufferIndex]
    ELSE ResolveBuffers(
            ResolveBuffer(st, bufferIndex,
                          dataFromUri(TRUE, st.gltf.buffers[bufferIndex + 1].uri, files)),
            bufferIndex + 1, files)

\* lines 155-158: (bufferView.byteOffset || 0) + bufferMap.get(bufferView.buffer)
RebaseView(bufferMap, bufferView) ==
    [bufferView EXCEPT
        !.byteOffset = IF MapHas(bufferMap, bufferView.buffer)
                       THEN (IF @ = Undef \/ @ = JsonNull THEN 0 ELSE @)
                            + MapGet(bufferMap, bufferView.buffer)
                       ELSE NaN,
        !.buffer = 0]

\* lines 155-158: for (const bufferView of gltf.bufferViews) throws when absent
RebaseViews(st) ==
    IF st.error # "" THEN st
    ELSE IF ~st.gltf.hasBufferViews THEN [st EXCEPT !.error = "TypeError"]
    ELSE [st EXCEPT !.gltf.bufferViews =
            [k \in 1..Len(st.gltf.bufferViews) |->
                RebaseView(st.bufferMap, st.gltf.bufferViews[k])]]

\* the cursor advanced by the resource's own length
convertToBufferView_NoAlign(st, data) ==
    [st EXCEPT
        !.bufferMap = MapSet(@, st.bufferIndex, st.bufferOffset),
        !.placed = Append(@, [offset |-> st.bufferOffset, length |-> Len(data.buffer)]),
        !.bufferIndex = @ + 1,
        !.bufferOffset = @ + Len(data.buffer),
        !.gltf.bufferViews = Append(@, [buffer |-> 0, byteOffset |-> st.bufferOffset,
                                        byteLength |-> Len(data.buffer)]),
        !.outputBuffers = Append(@, data.buffer)]

\* lines 160-178: convertToBufferView; the descriptor is rewritten by Converted
convertToBufferView(st, data) ==
    [st EXCEPT
        !.bufferMap = MapSet(@, st.bufferIndex, st.bufferOffset),
        !.placed = Append(@, [offset |-> st.bufferOffset, length |-> Len(data.buffer)]),
        !.bufferIndex = @ + 1,
        !.bufferOffset = @ + alignedLength(Len(data.buffer)),
        !.gltf.bufferViews = Append(@, [buffer |-> 0, byteOffset |-> st.bufferOffset,
                                        byteLength |-> Len(data.buffer)]),
        !.outputBuffers = Append(@, data.buffer)]

\* lines 175-177
Converted(st, descriptor, data) ==
    [descriptor EXCEPT !.bufferView = Len(st.gltf.bufferViews),
                       !.mimeType = data.mimeType, !.uri = NoUri]

\* lines 182-188: one image
ConvertImage(st, k, data) ==
    IF data.kind = "throw" THEN [st EXCEPT !.error = "ReadError"]
    ELSE IF data.kind = "null" THEN [st EXCEPT !.gltf.images[k].uri = NoUri]
    ELSE [convertToBufferView(st, data) EXCEPT
            !.gltf.images[k] = Converted(st, st.gltf.images[k], data)]

\* lines 180-190: images
RECURSIVE ConvertImages(_, _, _)
ConvertImages(st, k, files) ==
    IF st.error # "" \/ k > Len(st.gltf.images) THEN st
    ELSE ConvertImages(ConvertImage(st, k, dataFromUri(TRUE, st.gltf.images[k].uri, files)),
                       k + 1, files)

\* lines 194-200: one shader
ConvertShader(st, k, data) ==
    IF data.kind = "throw" THEN [st EXCEPT !.error = "ReadError"]
    ELSE IF data.kind = "null" THEN [st EXCEPT !.gltf.shaders[k].uri = NoUri]
    ELSE [convertToBufferView(st, data) EXCEPT
            !.gltf.shaders[k] = Converted(st, st.gltf.shaders[k], data)]

\* lines 192-202: shaders
RECURSIVE ConvertShaders(_, _, _)
ConvertShaders(st, k, files) ==
    IF st.error # "" \/ k > Len(st.gltf.shaders) THEN st
    ELSE ConvertShaders(ConvertShader(st, k, dataFromUri(TRUE, st.gltf.shaders[k].uri, files)),
                        k + 1, files)

\* lines 211-216: one entry of an array-valued extension property (a null
\* result keeps the uri)
ConvertExtension(st, k, data) ==
    IF data.kind = "throw" THEN [st EXCEPT !.error = "ReadError"]
    ELSE IF data.kind = "null" THEN st
    ELSE [convertToBufferView(st, data) EXCEPT
            !.gltf.extBuffers[k] = Converted(st, st.gltf.extBuffers[k], data)]

\* lines 204-221: array-valued extension properties
RECURSIVE ConvertExtensions(_, _, _)
ConvertExtensions(st, k, files) ==
    IF st.error # "" \/ k > Len(st.gltf.extBuffers) THEN st
    ELSE ConvertExtensions(
            ConvertExtension(st, k, dataFromUri(TRUE, st.gltf.extBuffers[k].uri, files)),
            k + 1, files)

\* lines 260-266: outputBuffers[i] is copied to the offset bufferMap has for i
RECURSIVE CopyOutputBuffers(_, _, _, _)
CopyOutputBuffers(payload, outputBuffers, bufferMap, i) ==
    IF i >= Len(outputBuffers) THEN payload
    ELSE CopyOutputBuffers(
            IF MapHas(bufferMap, i)
            THEN BufferCopy(payload, outputBuffers[i + 1], MapGet(bufferMap, i))
            ELSE payload,
            outputBuffers, bufferMap, i + 1)

\* lines 237-266: the container
Glb(gltf, jsonAlignedLength, binBufferSize, payload) ==
    [type |-> "glb", magic |-> Magic, version |-> GLBVersion,
     totalLength |-> FileHeaderSize + ChunkHeaderSize + jsonAlignedLength
                     + ChunkHeaderSize + binBufferSize,
     jsonLength |-> jsonAlignedLength, json |-> JsonStringify(gltf),
     binLength |-> binBufferSize, bin |-> payload]

\* line 268
WriteGlb(st, outputFilename, glb) ==
    [st EXCEPT !.glb = glb, !.files = (outputFilename :> glb) @@ st.files,
               !.written = <<outputFilename>>]

\* lines 223-227: gltf.buffers = [{ byteLength: binBufferSize }]
SingleBuffer(st) ==
    [st EXCEPT !.gltf.buffers = <<[uri |-> NoUri, byteLength |-> st.bufferOffset]>>]

\* lines 229-268
EmitGlb(st, outputFilename, jsonLength) ==
    WriteGlb(st, outputFilename,
             Glb(st.gltf, alignedLength(jsonLength), st.bufferOffset,
                 CopyOutputBuffers(ZeroBuffer(st.bufferOffset), st.outputBuffers,
                                   st.bufferMap, 0)))

\* lines 223-268, after the resources were resolved or a read threw
AfterResolve(st, outputFilename, jsonLength) ==
    IF st.error # "" THEN st ELSE EmitGlb(SingleBuffer(st), outputFilename, jsonLength)

\* ConvertToGLB(gltf, sourceFilename, outputFilename); jsonLength is the length
\* of JSON.stringify(gltf) in bytes.
ConvertToGLB(gltf, outputFilename, files, jsonLength) ==
    AfterResolve(
        ConvertExtensions(
            ConvertShaders(
                ConvertImages(
                    RebaseViews(
                        ResolveBuffers(
                            [gltf |-> gltf, bufferMap |-> {}, bufferOffset |-> 0,
                             outputBuffers |-> <<>>, bufferIndex |-> 0, placed |-> <<>>,
                             error |-> "", files |-> files, written |-> <<>>, glb |-> <<>>],
                            0, files)),
                    1, files),
                1, files),
            1, files),
        outputFilename, jsonLength)

\* -------------------------------------------------------------- input domain
BadMagic == Magic - 1
ModelGlb == <<"model", ".glb">>
ExtBin   == <<"ext", ".bin">>        \* an external buffer file that exists
GoneBin  == <<"gone", ".bin">>       \* an external buffer file that does not
TexPng   == <<"tex", ".png">>        \* an external image file that exists
DataUri8 == <<"data:", "application/octet-stream", ";", "base64", ",", "QkJCQg==">>
DataUri3 == <<"data:", "image/png", ";", "base64", ",", "SUlJ">>
BadDataUri == <<"data:", "image/png", ",", "SUlJ">>     \* no ';'
NoCommaUri == <<"data:", "image/png", ";", "base64">>   \* no ','

BinChunk   == <<11, 12, 13, 14, 15, 16, 17, 18>>         \* the container's BIN chunk
ExtBinData == <<31, 32, 33, 34, 35, 36, 37, 38>>
TexPngData == <<51, 52, 53, 54, 55>>

Headers == {[magic |-> Magic, version |-> 2], [magic |-> BadMagic, version |-> 2],
            [magic |-> Magic, version |-> 1], [magic |-> Magic, version |-> 3]}
Targets == {<<"out", ".gltf">>}
GlbOut  == <<"out", ".glb">>
JsonLengths == {38, 41}

SeqsUpTo(S, n) == UNION {[1..k -> S] : k \in 0..n}

\* buffers of a container: index 0 is the BIN chunk (no uri) or a data uri,
\* index 1 an external file
ContainerBuffers ==
    {<<[uri |-> u0, byteLength |-> 8], [uri |-> u1, byteLength |-> 8]>> :
        u0 \in {NoUri, DataUri8}, u1 \in {ExtBin, GoneBin}}

\* bufferViews, all inside their 8-byte buffer: an aligned one at the start of
\* buffer 0, an unaligned one inside buffer 1
ViewSet ==
    {[buffer |-> 0, byteOffset |-> Undef, byteLength |-> 4],
     [buffer |-> 1, byteOffset |-> 4, byteLength |-> 3]}

\* descriptors that reference one of the n bufferViews of the document
ImageSet(n) == {[bufferView |-> v, mimeType |-> m, uri |-> NoUri] :
                    v \in 0..(n - 1), m \in {"image/png", "image/ktx2"}}
ShaderSet(n) == {[bufferView |-> v, mimeType |-> NoMime, uri |-> NoUri,
                  type |-> GL_VERTEX_SHADER_ARB] : v \in 0..(n - 1)}
ExtSet(n) == {[bufferView |-> v, mimeType |-> NoMime, uri |-> NoUri] : v \in 0..(n - 1)}
AccessorSet(n) ==
    {[bufferView |-> v, sparseIndices |-> Undef, sparseValues |-> Undef] : v \in 0..(n - 1)}
    \cup {[bufferView |-> Undef, sparseIndices |-> v, sparseValues |-> v] : v \in 0..(n - 1)}
PrimSet(n) == {[draco |-> v] : v \in 0..(n - 1)}

\* descriptors of a text-form document: a uri and no bufferView
UriSet == {DataUri3, TexPng, GoneBin, BadDataUri}
TextImageSet == {[bufferView |-> Undef, mimeType |-> NoMime, uri |-> u] :
                    u \in UriSet \cup {NoCommaUri}}
TextShaderSet == {[bufferView |-> Undef, mimeType |-> NoMime, uri |-> u,
                   type |-> GL_FRAGMENT_SHADER_ARB] : u \in UriSet}
TextExtSet == {[bufferView |-> Undef, mimeType |-> NoMime, uri |-> u] : u \in UriSet}
TextBuffers ==
    LET B == {[uri |-> u, byteLength |-> 8] : u \in {NoUri, ExtBin, GoneBin}}
    IN {<<b>> : b \in B} \cup {<<b, c>> : b \in B, c \in B}
TextViews(nb) == SeqsUpTo({v \in ViewSet : v.buffer < nb}, 1)

VARIABLES
    files,      \* the file system: file name -> content
    input,      \* the conversion's input: the container header and the document
    imp,        \* the GLB -> glTF call and its outcome
    lf,         \* ConvertGLBtoGltfLoadFirst: where it is, what getTargetFilename did
    exp         \* the glTF -> GLB call and its outcome

vars == <<files, input, imp, lf, exp>>

NoImport == [state |-> "none", error |-> "", target |-> NoUri, written |-> <<>>,
             gltf |-> <<>>, bufferViewList |-> <<>>, before |-> <<>>]
NoLoadFirst == [pc |-> "idle", calls |-> 0, produced |-> NoUri, returned |-> NoUri]
NoExport == [state |-> "none", error |-> "", source |-> "", written |-> <<>>, gltf |-> <<>>,
             glb |-> <<>>, placed |-> <<>>, before |-> <<>>]

Container(header, doc) ==
    [type |-> "glb", magic |-> header.magic, version |-> header.version,
     totalLength |-> 0, jsonLength |-> 0, json |-> doc, binLength |-> Len(BinChunk),
     bin |-> BinChunk]

InitFiles(header, doc) ==
    (ModelGlb :> Container(header, doc))
    @@ (ExtBin :> [type |-> "bin", data |-> ExtBinData])
    @@ (TexPng :> [type |-> "bin", data |-> TexPngData])

InitWith(header, doc) ==
    /\ input = [header |-> header, doc |-> doc]
    /\ files = InitFiles(header, doc)
    /\ imp = NoImport
    /\ lf = NoLoadFirst
    /\ exp = NoExport

\* a container document: descriptors reference bufferViews
InitContainer ==
    \E bs \in ContainerBuffers, vs \in SeqsUpTo(ViewSet, MaxViews) :
    \E ni \in 0..MaxRefs, ns \in 0..MaxRefs, ne \in 0..MaxRefs,
       na \in 0..MaxRefs, np \in 0..MaxRefs :
        /\ ni + ns + ne + na + np <= MaxRefs
        /\ \E im \in [1..ni -> ImageSet(Len(vs))], sh \in [1..ns -> ShaderSet(Len(vs))],
              ex \in [1..ne -> ExtSet(Len(vs))], ac \in [1..na -> AccessorSet(Len(vs))],
              pr \in [1..np -> PrimSet(Len(vs))] :
           \E header \in Headers :
              /\ IF header.magic = Magic /\ header.version = GLBVersion THEN TRUE ELSE Len(vs) + ni <= 1
              /\ InitWith(header,
                    [buffers |-> bs, hasBufferViews |-> TRUE, bufferViews |-> vs,
                     images |-> im, shaders |-> sh, extBuffers |-> ex,
                     accessors |-> ac, prims |-> pr])

\* a text-form document: descriptors carry uris
InitText ==
    \E bs \in TextBuffers, hasViews \in BOOLEAN :
    \E vs \in (IF hasViews THEN TextViews(Len(bs)) ELSE {<<>>}) :
    \E ni \in 0..MaxRefs, ns \in 0..MaxRefs, ne \in 0..MaxRefs :
        /\ ni + ns + ne <= MaxRefs
        /\ \E im \in [1..ni -> TextImageSet], sh \in [1..ns -> TextShaderSet],
              ex \in [1..ne -> TextExtSet] :
              InitWith([magic |-> Magic, version |-> GLBVersion],
                    [buffers |-> bs, hasBufferViews |-> hasViews, bufferViews |-> vs,
                     images |-> im, shaders |-> sh, extBuffers |-> ex,
                     accessors |-> <<>>, prims |-> <<>>])

Init == InitContainer \/ InitText

\* ------------------------------------------------------------------- actions
Idle == imp.state = "none" /\ lf.pc = "idle" /\ exp.state = "none"

\* the outcome of doConversion, as an import record
Imported(r, targetFilename) ==
    [state |-> IF r.error = "" THEN "ok" ELSE "error", error |-> r.error,
     target |-> targetFilename, written |-> r.written, gltf |-> r.gltf,
     bufferViewList |-> r.bufferViewList, before |-> files]

HeaderRejected(error) ==
    [NoImport EXCEPT !.state = "error", !.error = error, !.before = files]

\* lines 39-40: readSourceFile threw (error), or doConversion ran (r)
ImportStep(error, r, targetFilename) ==
    IF error # ""
    THEN /\ imp' = HeaderRejected(error)
         /\ UNCHANGED files
    ELSE /\ imp' = Imported(r, targetFilename)
         /\ files' = r.files

\* ConvertGLBtoGltf(sourceFilename, targetFilename)
ConvertGLBtoGltf(sourceFilename, targetFilename) ==
    /\ Idle
    /\ ImportStep(readSourceFile(sourceFilename, files),
                  doConversion(files[sourceFilename], targetFilename, files),
                  targetFilename)
    /\ UNCHANGED <<input, lf, exp>>

\* getTargetFilename called before the source was validated
LoadFirstRead_CallFirst(error) ==
    IF error # ""
    THEN /\ lf' = [lf EXCEPT !.pc = "failed", !.calls = @ + 1]
         /\ imp' = HeaderRejected(error)
    ELSE /\ lf' = [lf EXCEPT !.pc = "awaiting", !.calls = @ + 1]
         /\ UNCHANGED imp

\* line 54: readSourceFile threw (error) or returned
LoadFirstRead(error) ==
    IF error # ""
    THEN /\ lf' = [lf EXCEPT !.pc = "failed"]
         /\ imp' = HeaderRejected(error)
    ELSE /\ lf' = [lf EXCEPT !.pc = "awaiting", !.calls = @ + 1]
         /\ UNCHANGED imp

\* ConvertGLBtoGltfLoadFirst, up to the await: readSourceFile, then the call of
\* getTargetFilename
LoadFirstBegin(sourceFilename) ==
    /\ Idle
    /\ LoadFirstRead(readSourceFile(sourceFilename, files))
    /\ UNCHANGED <<files, input, exp>>

\* lines 56-60
LoadFirstConvert(r, targetFilename) ==
    IF targetFilename # NoUri
    THEN /\ imp' = Imported(r, targetFilename)
         /\ files' = r.files
         /\ lf' = IF r.error = ""
                  THEN [lf EXCEPT !.pc = "returned", !.produced = targetFilename,
                                  !.returned = targetFilename]
                  ELSE [lf EXCEPT !.pc = "failed", !.produced = targetFilename]
    ELSE /\ lf' = [lf EXCEPT !.pc = "returned", !.produced = targetFilename,
                             !.returned = targetFilename]
         /\ UNCHANGED <<imp, files>>

\* getTargetFilename resolves to targetFilename (NoUri: null or undefined); the
\* rest of ConvertGLBtoGltfLoadFirst runs
LoadFirstResolve(sourceFilename, targetFilename) ==
    /\ lf.pc = "awaiting"
    /\ LoadFirstConvert(doConversion(files[sourceFilename], targetFilename, files),
                        targetFilename)
    /\ UNCHANGED <<input, exp>>

\* getTargetFilename rejects: the await throws
LoadFirstReject ==
    /\ lf.pc = "awaiting"
    /\ lf' = [lf EXCEPT !.pc = "failed"]
    /\ UNCHANGED <<files, input, imp, exp>>

Exported(r, source) ==
    [state |-> IF r.error = "" THEN "ok" ELSE "error", error |-> r.error,
     source |-> source, written |-> r.written, gltf |-> r.gltf, glb |-> r.glb,
     placed |-> r.placed, before |-> files]

ExportStep(r, source) ==
    /\ exp' = Exported(r, source)
    /\ files' = r.files

\* ConvertGltfToGLB(sourceFilename, outputFilename) on the .gltf an import wrote
ConvertGltfToGLB(outputFilename, jsonLength) ==
    /\ imp.state = "ok"
    /\ exp.state = "none"
    /\ ExportStep(ConvertToGLB(JsonParse(files[imp.target].json), outputFilename, files,
                               jsonLength), "import")
    /\ UNCHANGED <<input, imp, lf>>

\* ConvertToGLB(gltf, sourceFilename, outputFilename) on the input document
ConvertDocToGLB(outputFilename, jsonLength) ==
    /\ Idle
    /\ ExportStep(ConvertToGLB(input.doc, outputFilename, files, jsonLength), "input")
    /\ UNCHANGED <<input, imp, lf>>

Next ==
    \/ \E t \in Targets : ConvertGLBtoGltf(ModelGlb, t)
    \/ LoadFirstBegin(ModelGlb)
    \/ \E t \in Targets \cup {NoUri} : LoadFirstResolve(ModelGlb, t)
    \/ LoadFirstReject
    \/ \E n \in JsonLengths : ConvertGltfToGLB(GlbOut, n)
    \/ \E n \in JsonLengths : ConvertDocToGLB(GlbOut, n)

Spec == Init /\ [][Next]_vars

\* -------------------------------------------------------------------- claims
ValidHeader == input.header.magic = Magic /\ input.header.version = 2

AlignUp(n) == ((n + 3) \div 4) * 4

\* the sum of the lengths of q, each rounded up to a multiple of 4
RECURSIVE AlignedSum(_)
AlignedSum(q) == IF q = <<>> THEN 0 ELSE AlignUp(Head(q)) + AlignedSum(Tail(q))

\* the 0-based indices of the bufferViews of doc that no image, shader or
\* extension-array descriptor references, in order
IsGeneric(doc, v) ==
    /\ \A k \in 1..Len(doc.images) : doc.images[k].bufferView # v
    /\ \A k \in 1..Len(doc.shaders) : doc.shaders[k].bufferView # v
    /\ \A k \in 1..Len(doc.extBuffers) : doc.extBuffers[k].bufferView # v

GenericViews(doc) == SelectSeq([i \in 1..Len(doc.bufferViews) |-> i - 1],
                               LAMBDA v : IsGeneric(doc, v))

\* the byteLength of each of the bufferViews vs (0-based indices) of doc
ViewLengths(doc, vs) == [i \in 1..Len(vs) |-> doc.bufferViews[vs[i] + 1].byteLength]

\* ranges [a.offset, a.offset + a.length) and [b.offset, ...) share no byte
Disjoint(a, b) ==
    a.offset + a.length <= b.offset \/ b.offset + b.length <= a.offset
    \/ a.length = 0 \/ b.length = 0

\* the document the exporter was given
ExportInput == IF exp.source = "import" THEN imp.gltf ELSE input.doc

\* C2: header gate.  With a bad magic or a version other than 2, an attempted
\* ConvertGLBtoGltf or ConvertGLBtoGltfLoadFirst has failed with the header
\* error, getTargetFilename was not awaited, and no file was written: the file
\* system is the one the call found.
C2_HeaderGate ==
    (~ValidHeader) =>
        /\ imp.state \in {"none", "error"}
        /\ lf.pc \in {"idle", "failed"}
        /\ imp.state = "error" =>
              /\ imp.error = (IF input.header.magic # Magic THEN "NotGLB"
                              ELSE "UnsupportedVersion")
              /\ imp.written = <<>>
              /\ files = imp.before
              /\ \A t \in Targets : t \notin DOMAIN files

C2_Witness ==
    /\ input.header.version = 3
    /\ Len(input.doc.bufferViews) = 1
    /\ imp.state = "error"
    /\ lf.pc = "failed"

\* C5: after a decomposition that completed, buffers has exactly one entry,
\* its uri names <base>_data.bin, and its byteLength is the sum of the aligned
\* lengths of the generic bufferViews of the input, which is the length of the
\* data file written.
C5_SingleDataBuffer ==
    imp.state = "ok" =>
        /\ Len(imp.gltf.buffers) = 1
        /\ imp.gltf.buffers[1].uri = targetBasename(imp.target) \o <<"_data", ".bin">>
        /\ imp.gltf.buffers[1].byteLength =
              AlignedSum(ViewLengths(input.doc, GenericViews(input.doc)))
        /\ imp.gltf.buffers[1].uri \in DOMAIN files
        /\ Len(files[imp.gltf.buffers[1].uri].data) = imp.gltf.buffers[1].byteLength

C5_Witness ==
    /\ imp.state = "ok"
    /\ Len(input.doc.buffers) = 2
    /\ Len(input.doc.images) = 1
    /\ \E i \in 1..Len(input.doc.bufferViews) :
          IsGeneric(input.doc, i - 1) /\ input.doc.bufferViews[i].byteLength = 3
    /\ imp.gltf.buffers[1].byteLength = 4

\* the resources of doc the exporter resolves, read from fs: their lengths, in
\* the order buffers, images, shaders, extension entries
ResolvedLengths(doc, fs) ==
    LET all == [k \in 1..Len(doc.buffers) |-> doc.buffers[k].uri]
               \o [k \in 1..Len(doc.images) |-> doc.images[k].uri]
               \o [k \in 1..Len(doc.shaders) |-> doc.shaders[k].uri]
               \o [k \in 1..Len(doc.extBuffers) |-> doc.extBuffers[k].uri]
        res == [k \in 1..Len(all) |-> dataFromUri(TRUE, all[k], fs)]
        got == SelectSeq(res, LAMBDA r : r.kind = "data")
    IN [k \in 1..Len(got) |-> Len(got[k].buffer)]

\* C6: after a composition that completed, buffers has exactly one entry, it
\* has no uri, and its byteLength is the sum of the aligned lengths of every
\* resolved buffer, image, shader and extension resource, which is the length
\* in the binary chunk header (and of the binary chunk).
C6_SingleEmbeddedBuffer ==
    exp.state = "ok" =>
        /\ Len(exp.gltf.buffers) = 1
        /\ exp.gltf.buffers[1].uri = NoUri
        /\ exp.gltf.buffers[1].byteLength =
              AlignedSum(ResolvedLengths(ExportInput, exp.before))
        /\ exp.glb.binLength = exp.gltf.buffers[1].byteLength
        /\ Len(exp.glb.bin) = exp.glb.binLength
        /\ exp.glb.json.buffers = exp.gltf.buffers

C6_Witness ==
    /\ exp.state = "ok"
    /\ exp.source = "input"
    /\ Len(input.doc.buffers) = 2
    /\ Len(exp.placed) = 3
    /\ exp.gltf.buffers[1].byteLength = 20

\* C7: every generic bufferView of the data file the importer wrote, and every
\* resource the exporter placed (resolved buffers, appended bufferViews), starts
\* at a multiple of 4; no two of them overlap; the JSON and binary chunk
\* lengths the exporter emits are multiples of 4.
ViewRange(view) == [offset |-> view.byteOffset, length |-> view.byteLength]

C7_AlignedDisjoint ==
    /\ imp.state = "ok" =>
          /\ \A i \in 1..Len(imp.gltf.bufferViews) :
                /\ imp.gltf.bufferViews[i].byteOffset % 4 = 0
                /\ imp.gltf.bufferViews[i].byteOffset + imp.gltf.bufferViews[i].byteLength
                      <= imp.gltf.buffers[1].byteLength
          /\ \A i, j \in 1..Len(imp.gltf.bufferViews) :
                i # j => Disjoint(ViewRange(imp.gltf.bufferViews[i]),
                                  ViewRange(imp.gltf.bufferViews[j]))
    /\ exp.state = "ok" =>
          /\ \A i \in 1..Len(exp.placed) :
                /\ exp.placed[i].offset % 4 = 0
                /\ exp.placed[i].offset + exp.placed[i].length <= exp.glb.binLength
          /\ \A i, j \in 1..Len(exp.placed) :
                i # j => Disjoint(exp.placed[i], exp.placed[j])
          /\ \A k \in (Len(ExportInput.bufferViews) + 1)..Len(exp.gltf.bufferViews) :
                /\ exp.gltf.bufferViews[k].byteOffset % 4 = 0
                /\ \E i \in 1..Len(exp.placed) :
                      exp.placed[i] = ViewRange(exp.gltf.bufferViews[k])
          /\ exp.glb.jsonLength % 4 = 0
          /\ exp.glb.binLength % 4 = 0

C7_Witness ==
    /\ imp.state = "ok"
    /\ Len(imp.gltf.bufferViews) = 2
    /\ imp.gltf.bufferViews[2].byteOffset = 4
    /\ input.doc.bufferViews[1].byteLength = 3
    /\ exp.state = "ok"
    /\ exp.placed = <<[offset |-> 0, length |-> 8]>>
    /\ exp.glb.jsonLength = 44

\* C10: ConvertGLBtoGltfLoadFirst calls getTargetFilename at most once, and only
\* with a source that passed the header check; while the call is pending no
\* file has been written; when it resolves to null no conversion ran and no
\* file was written; when the function returns, it returns what
\* getTargetFilename produced.
C10_LoadFirstOrder ==
    /\ lf.calls <= 1
    /\ lf.calls = 1 => ValidHeader
    /\ (lf.pc = "failed" /\ ~ValidHeader) => lf.calls = 0
    /\ lf.pc \in {"awaiting", "returned"} => lf.calls = 1
    /\ lf.pc = "awaiting" =>
          /\ imp.state = "none"
          /\ files = InitFiles(input.header, input.doc)
    /\ (lf.pc = "returned" /\ lf.produced = NoUri) =>
          /\ imp.state = "none"
          /\ files = InitFiles(input.header, input.doc)
    /\ lf.pc = "returned" =>
          /\ lf.returned = lf.produced
          /\ lf.produced # NoUri => (imp.state = "ok" /\ imp.target = lf.produced)

C10_Witness ==
    /\ lf.pc = "returned"
    /\ lf.calls = 1
    /\ lf.returned \in Targets
    /\ imp.state = "ok"
    /\ Len(imp.written) >= 3

\* the bytes a bufferView addresses in buf; <<-1>> when it addresses none
Addressed(buf, view) ==
    IF view.byteOffset \in {NaN, JsonNull}
          \/ ViewOffset(view) + view.byteLength > Len(buf) THEN <<-1>>
    ELSE [i \in 1..view.byteLength |-> buf[ViewOffset(view) + i]]

\* the bytes of buffer b (0-based) of the source container: its BIN chunk
\* when the buffer has no uri, what the uri names otherwise
OriginalBuffer(b) ==
    IF input.doc.buffers[b + 1].uri = NoUri THEN imp.before[ModelGlb].bin
    ELSE dataFromUri(TRUE, input.doc.buffers[b + 1].uri, imp.before).buffer

\* the bytes bufferView v (0-based) of the source container addresses
OriginalBytes(v) ==
    Addressed(OriginalBuffer(input.doc.bufferViews[v + 1].buffer),
              input.doc.bufferViews[v + 1])

\* the bytes bufferView v of the document doc addresses in buf
BytesOf(doc, buf, v) ==
    IF v \notin 0..(Len(doc.bufferViews) - 1) THEN <<-1>>
    ELSE Addressed(buf, doc.bufferViews[v + 1])

\* C1: a container that went through doConversion and then ConvertToGLB comes
\* out with every image, shader, extension entry and accessor addressing,
\* through its bufferView, the bytes it addressed in the source container.
C1_RoundTrip ==
    (imp.state = "ok" /\ exp.state = "ok" /\ exp.source = "import") =>
        /\ \A k \in 1..Len(input.doc.images) :
              input.doc.images[k].bufferView # Undef =>
                 BytesOf(exp.glb.json, exp.glb.bin, exp.glb.json.images[k].bufferView)
                    = OriginalBytes(input.doc.images[k].bufferView)
        /\ \A k \in 1..Len(input.doc.shaders) :
              input.doc.shaders[k].bufferView # Undef =>
                 BytesOf(exp.glb.json, exp.glb.bin, exp.glb.json.shaders[k].bufferView)
                    = OriginalBytes(input.doc.shaders[k].bufferView)
        /\ \A k \in 1..Len(input.doc.extBuffers) :
              input.doc.extBuffers[k].bufferView # Undef =>
                 BytesOf(exp.glb.json, exp.glb.bin, exp.glb.json.extBuffers[k].bufferView)
                    = OriginalBytes(input.doc.extBuffers[k].bufferView)
        /\ \A k \in 1..Len(input.doc.accessors) :
              input.doc.accessors[k].bufferView # Undef =>
                 BytesOf(exp.glb.json, exp.glb.bin, exp.glb.json.accessors[k].bufferView)
                    = OriginalBytes(input.doc.accessors[k].bufferView)

\* the data file the importer wrote
DataFile == files[DataBinName(targetBasename(imp.target))].data

\* old index v was renumbered to n: n is an index of the new bufferViews, the
\* view is in buffer 0 with the original length, and it addresses the
\* original bytes in the data file
Renumbered(v, n) ==
    /\ n \in 0..(Len(imp.gltf.bufferViews) - 1)
    /\ imp.gltf.bufferViews[n + 1].buffer = 0
    /\ imp.gltf.bufferViews[n + 1].byteLength = input.doc.bufferViews[v + 1].byteLength
    /\ Addressed(DataFile, imp.gltf.bufferViews[n + 1]) = OriginalBytes(v)

\* C3: after a decomposition that completed, every accessor.bufferView,
\* accessor.sparse.indices.bufferView, accessor.sparse.values.bufferView and
\* KHR_draco_mesh_compression.bufferView is an index of the new bufferViews
\* array and addresses the bytes it addressed before; the new bufferView has
\* buffer 0 and its original (unpadded) byteLength.
C3_IndexIntegrity ==
    imp.state = "ok" =>
        /\ \A k \in 1..Len(input.doc.accessors) :
              /\ input.doc.accessors[k].bufferView # Undef =>
                    Renumbered(input.doc.accessors[k].bufferView,
                               imp.gltf.accessors[k].bufferView)
              /\ input.doc.accessors[k].sparseIndices # Undef =>
                    Renumbered(input.doc.accessors[k].sparseIndices,
                               imp.gltf.accessors[k].sparseIndices)
              /\ input.doc.accessors[k].sparseValues # Undef =>
                    Renumbered(input.doc.accessors[k].sparseValues,
                               imp.gltf.accessors[k].sparseValues)
        /\ \A k \in 1..Len(input.doc.prims) :
              Renumbered(input.doc.prims[k].draco, imp.gltf.prims[k].draco)

\* the descriptor's bufferView is an index of the document's bufferViews,
\* or it has none
InRange(doc, descriptor) ==
    descriptor.bufferView = Undef
    \/ descriptor.bufferView \in 0..(Len(doc.bufferViews) - 1)

\* every descriptor of the list whose bufferView the source had referenced
\* from an image, shader or extension entry (and that therefore went to a
\* sidecar file) has lost its bufferView
SidecarsDetached(before, after) ==
    \A k \in 1..Len(before) :
        (before[k].bufferView # Undef /\ ~IsGeneric(input.doc, before[k].bufferView))
            => after[k].bufferView = Undef

\* C4: after a decomposition that completed, every bufferView index still in
\* the document (images, shaders, extension entries, accessors, sparse, draco)
\* is an index of the new bufferViews array, and a descriptor whose bufferView
\* was written to a sidecar file has no bufferView.
C4_NoDanglingReference ==
    imp.state = "ok" =>
        /\ \A k \in 1..Len(imp.gltf.images) : InRange(imp.gltf, imp.gltf.images[k])
        /\ \A k \in 1..Len(imp.gltf.shaders) : InRange(imp.gltf, imp.gltf.shaders[k])
        /\ \A k \in 1..Len(imp.gltf.extBuffers) : InRange(imp.gltf, imp.gltf.extBuffers[k])
        /\ \A k \in 1..Len(imp.gltf.accessors) :
              /\ InRange(imp.gltf, imp.gltf.accessors[k])
              /\ InRange(imp.gltf, [bufferView |-> imp.gltf.accessors[k].sparseIndices])
              /\ InRange(imp.gltf, [bufferView |-> imp.gltf.accessors[k].sparseValues])
        /\ \A k \in 1..Len(imp.gltf.prims) :
              InRange(imp.gltf, [bufferView |-> imp.gltf.prims[k].draco])
        /\ SidecarsDetached(input.doc.images, imp.gltf.images)
        /\ SidecarsDetached(input.doc.shaders, imp.gltf.shaders)
        /\ SidecarsDetached(input.doc.extBuffers, imp.gltf.extBuffers)

\* C8: a conversion that failed has written no file: a decomposition that
\* threw left no .gltf, no data file and no sidecar, a composition that threw
\* left no .glb.
C8_AllOrNothing ==
    /\ imp.state = "error" => (imp.written = <<>> /\ files = imp.before)
    /\ exp.state = "error" => (exp.written = <<>> /\ files = exp.before)

\* '.' + the first extension the MIME table lists for mimeType, '.bin' when it
\* lists none
ExpectedExtension(mimeType) ==
    CASE mimeType = "image/png" -> ".png"
      [] mimeType = "image/jpeg" -> ".jpg"
      [] mimeType = "image/vnd-ms.dds" -> ".dds"
      [] OTHER -> ".bin"

\* the images of the source (1-based) that reference bufferView v
ImageGroup(v) == {k \in 1..Len(input.doc.images) : input.doc.images[k].bufferView = v}

\* the sidecar name of the group of bufferView v
GroupFile(v) ==
    targetBasename(imp.target)
        \o <<"_img", ToString(SetMin(ImageGroup(v)) - 1),
             ExpectedExtension(input.doc.images[SetMin(ImageGroup(v))].mimeType)>>

\* C9: after a decomposition that completed, the images that share one
\* bufferView have one sidecar file, named <base>_img<N><ext> with N the lowest
\* index of the group and <ext> guessed from that image's MIME type; each image
\* of the group has that file name as its uri and has no bufferView.
C9_ImageGrouping ==
    imp.state = "ok" =>
        \A v \in 0..(Len(input.doc.bufferViews) - 1) :
            Cardinality(ImageGroup(v)) >= 2 =>
                /\ Cardinality({i \in 1..Len(imp.written) :
                        Len(imp.written[i]) = 4 /\ imp.written[i][2] = "_img"}) = 1
                /\ GroupFile(v) \in DOMAIN files
                /\ \A k \in ImageGroup(v) :
                      /\ imp.gltf.images[k].uri = GroupFile(v)
                      /\ imp.gltf.images[k].bufferView = Undef

\* the bytes of the resources of doc the exporter resolves, read from fs, in
\* the order buffers, images, shaders, extension entries
ResolvedData(doc, fs) ==
    LET all == [k \in 1..Len(doc.buffers) |-> doc.buffers[k].uri]
               \o [k \in 1..Len(doc.images) |-> doc.images[k].uri]
               \o [k \in 1..Len(doc.shaders) |-> doc.shaders[k].uri]
               \o [k \in 1..Len(doc.extBuffers) |-> doc.extBuffers[k].uri]
        res == [k \in 1..Len(all) |-> dataFromUri(TRUE, all[k], fs)]
        got == SelectSeq(res, LAMBDA r : r.kind = "data")
    IN [k \in 1..Len(got) |-> got[k].buffer]

\* the payload holds bytes at the range placed
Holds(payload, placed, bytes) ==
    /\ placed.length = Len(bytes)
    /\ placed.offset + placed.length <= Len(payload)
    /\ \A i \in 1..Len(bytes) : payload[placed.offset + i] = bytes[i]

\* C11: after a composition that completed, the binary payload holds, at the
\* offset assigned to each resolved resource (buffer, image, shader, extension
\* entry), that resource's own bytes, also when buffers entries before it
\* were skipped.
C11_PayloadPlacement ==
    exp.state = "ok" =>
        /\ Len(exp.placed) = Len(ResolvedData(ExportInput, exp.before))
        /\ \A k \in 1..Len(exp.placed) :
              Holds(exp.glb.bin, exp.placed[k], ResolvedData(ExportInput, exp.before)[k])

\* bufferView v (0-based) of the source container lies in a buffers entry
\* that has no uri: the container's own binary chunk
InBinChunk(v) == input.doc.buffers[input.doc.bufferViews[v + 1].buffer + 1].uri = NoUri

\* the bytes of the container's binary chunk that bufferView v addresses
ChunkBytes(v) == Addressed(imp.before[ModelGlb].bin, input.doc.bufferViews[v + 1])

\* C12: a decomposition of a valid container does not fail with the
\* content-not-found error, and for a bufferView whose buffers entry has no uri
\* the bytes written (to the data file for a generic view, to the sidecar for
\* an image) are those of the container's binary chunk at
\* [byteOffset, byteOffset + byteLength).
C12_OwnBinaryChunk ==
    /\ imp.state = "error" => imp.error # "ContentNotFound"
    /\ imp.state = "ok" =>
          /\ \A n \in 1..Len(imp.bufferViewList) :
                InBinChunk(imp.bufferViewList[n]) =>
                    Addressed(DataFile,
                              [imp.gltf.bufferViews[n] EXCEPT !.byteLength =
                                 input.doc.bufferViews[imp.bufferViewList[n] + 1].byteLength])
                       = ChunkBytes(imp.bufferViewList[n])
          /\ \A k \in 1..Len(input.doc.images) :
                (input.doc.images[k].bufferView # Undef
                   /\ InBinChunk(input.doc.images[k].bufferView)) =>
                    /\ imp.gltf.images[k].uri \in DOMAIN files
                    /\ files[imp.gltf.images[k].uri].data
                          = ChunkBytes(input.doc.images[k].bufferView)

\* the entry carries a uri that the resource loader does not turn into data
Unresolvable(entry, fs) ==
    entry.uri # NoUri /\ dataFromUri(TRUE, entry.uri, fs).kind # "data"

\* the entries of the list that carry a uri the loader turns into data
Resolvable(list, fs) ==
    {k \in 1..Len(list) : dataFromUri(TRUE, list[k].uri, fs).kind = "data"}

\* after the composition, each unresolvable entry of the list `before` has
\* neither uri nor bufferView
Cleared(before, after, fs) ==
    \A k \in 1..Len(before) :
        Unresolvable(before[k], fs) =>
            (after[k].uri = NoUri /\ after[k].bufferView = Undef)

\* what makes a composition fail before any image, shader or extension entry
\* is looked at: a buffers entry whose file cannot be read, or no bufferViews
FailsBeforeEntries(doc, fs) ==
    \/ ~doc.hasBufferViews
    \/ \E k \in 1..Len(doc.buffers) : dataFromUri(TRUE, doc.buffers[k].uri, fs).kind = "throw"

\* C13: an entry of images, shaders or an extension array whose uri cannot be
\* resolved to data does not make the composition fail; after the composition it
\* has no uri and no bufferView, and bufferViews were appended only for the
\* entries that were resolved.
C13_UnresolvableEntry ==
    /\ exp.state = "error" => FailsBeforeEntries(ExportInput, exp.before)
    /\ exp.state = "ok" =>
          /\ Cleared(ExportInput.images, exp.gltf.images, exp.before)
          /\ Cleared(ExportInput.shaders, exp.gltf.shaders, exp.before)
          /\ Cleared(ExportInput.extBuffers, exp.gltf.extBuffers, exp.before)
          /\ Len(exp.gltf.bufferViews) =
                Len(ExportInput.bufferViews)
                + Cardinality(Resolvable(ExportInput.images, exp.before))
                + Cardinality(Resolvable(ExportInput.shaders, exp.before))
                + Cardinality(Resolvable(ExportInput.extBuffers, exp.before))

\* the uris of the buffers, images, shaders and extension entries of doc
UrisOf(doc) ==
    {doc.buffers[k].uri : k \in 1..Len(doc.buffers)}
    \cup {doc.images[k].uri : k \in 1..Len(doc.images)}
    \cup {doc.shaders[k].uri : k \in 1..Len(doc.shaders)}
    \cup {doc.extBuffers[k].uri : k \in 1..Len(doc.extBuffers)}

HasToken(uri, t) == \E i \in 1..Len(uri) : uri[i] = t

\* uri starts with the data-uri prefix
IsDataUri(uri) == uri # NoUri /\ uri[1] = "data:"

\* a data uri of the form data:<media type>;base64,<payload>
WellFormed(uri) ==
    /\ IsDataUri(uri)
    /\ Len(uri) = 6
    /\ uri[3] = ";"
    /\ uri[5] = ","

\* a data uri without ';' after the media type or without ',' before the payload
Malformed(uri) == IsDataUri(uri) /\ (~HasToken(uri, ";") \/ ~HasToken(uri, ","))

\* C14: for every uri of a document whose composition went on to load its
\* images, shaders and extension entries, dataFromUri returns null, and does
\* not raise, when the uri is a data uri without ';' or without ','; for a
\* well-formed data uri it returns the decoded payload with the media type as
\* MIME type.
C14_MalformedDataUri ==
    (exp.state # "none" /\ ~FailsBeforeEntries(ExportInput, exp.before)) =>
        \A uri \in UrisOf(ExportInput) :
            /\ Malformed(uri) => dataFromUri(TRUE, uri, exp.before).kind = "null"
            /\ WellFormed(uri) =>
                  dataFromUri(TRUE, uri, exp.before)
                     = [kind |-> "data", mimeType |-> uri[2], buffer |-> Base64Decode(uri[6])]

====
